---- MODULE Spec2Model ----
(***************************************************************************)
(* Model of the offline sync queue of nova26's desktop shell               *)
(* (src-tauri/src/electric_sync.rs) and of the shared engine instance      *)
(* declared in src-tauri/src/main.rs.                                      *)
(*                                                                         *)
(* The in-memory queue is a sequence of SyncQueueItem records, the         *)
(* snapshot file .nova/sync-queue.json is `disk`, and the tokio Mutex      *)
(* that wraps the engine in AppState is `lock`.  flush is an async fn      *)
(* that awaits the adapter once per pending item, so it is modelled as a   *)
(* begin step, one step per item and an end step; every other operation    *)
(* is synchronous and is one step taken while the mutex is free.           *)
(*                                                                         *)
(* Callers stamp each enqueued item with a strictly increasing clock       *)
(* (`now`), so a timestamp identifies one enqueue; no operation reads the  *)
(* timestamp.  `ret` is the value the last call returned, `fl` holds the   *)
(* locals of a running flush, `delivered` and fl.handed / fl.start are     *)
(* history used by the properties only.                                    *)
(***************************************************************************)
EXTENDS Naturals, Integers, Sequences, FiniteSets, TLC

VARIABLES queue, disk, lock, pc, fl, ret, now, delivered, faults

vars == <<queue, disk, lock, pc, fl, ret, now, delivered, faults>>

----------------------------------------------------------------------------
(* Bounds and input domains *)

\* Number of enqueue calls over the whole run (the caller's clock stops there).
MaxEnq == 2
\* Number of I/O failures (persist or read) the environment injects in a run.
MaxFaults == 1
\* Enqueues in the behaviours explored under fairness (SpecLive).
MaxLiveEnq == 1

\* The callers (tasks) that may invoke flush on the shared engine.
Procs == {"t1", "t2"}
NoOne == "none"

Ids == {"i1", "i2"}
\* The mutations the callers enqueue: a create with a payload and an update
\* without one (content: None is <<>>, Some(c) is <<c>>).
Payloads == { [id |-> "i1", action |-> "create", content |-> <<"old">>],
              [id |-> "i2", action |-> "update", content |-> <<>>] }
ThePath == "/x"

\* Strategy strings passed to resolve_conflict, one of them unrecognised.
Strategies == {"last-write-wins", "merge", "bogus"}
\* resolved_content: None is <<>>, Some(c) is <<c>>.
ResolvedContents == { <<>>, <<"new">> }

\* Outcomes of the persist step (create_dir_all, to_string_pretty, fs::write):
\* "ok"; "err" = create_dir_all fails and the file is not touched; "open" =
\* fs::write fails when it opens the file, which is not touched; "torn" =
\* fs::write fails after it has truncated the file.
PersistOutcomes == {"ok", "err", "open", "torn"}
\* Outcomes of the reads of load_queue on a file that is there: "ok";
\* "hidden" = Path::exists() answers false because the file's metadata cannot
\* be read; "err" = fs::read_to_string fails.
ReadOutcomes == {"ok", "hidden", "err"}

----------------------------------------------------------------------------
(* Data *)

\* SyncQueueItem; Option<String> is a sequence of length 0 or 1.
SyncQueueItem(id, action, path, content, timestamp, synced) ==
    [id |-> id, action |-> action, path |-> path, content |-> content,
     timestamp |-> timestamp, synced |-> synced]

\* The three arms of the match on sync_item's Result<bool, String> in flush.
SyncOutcomes == {"Synced", "Conflicted", "Failed"}

\* serde_json's encoding of one item: Option::None is JSON null, Some(s) a
\* JSON string.
ToJson(item) ==
    [id |-> item.id, action |-> item.action, path |-> item.path,
     content |-> IF item.content = <<>>
                 THEN [null |-> TRUE, str |-> ""]
                 ELSE [null |-> FALSE, str |-> item.content[1]],
     timestamp |-> item.timestamp, synced |-> item.synced]

\* serde_json's decoding of one item.
FromJson(obj) ==
    [id |-> obj.id, action |-> obj.action, path |-> obj.path,
     content |-> IF obj.content.null THEN <<>> ELSE <<obj.content.str>>,
     timestamp |-> obj.timestamp, synced |-> obj.synced]

\* serde_json::to_string_pretty(&self.queue)
Serialize(q) == [i \in 1..Len(q) |-> ToJson(q[i])]
\* serde_json::from_str::<Vec<SyncQueueItem>>(&content)
Deserialize(js) == [i \in 1..Len(js) |-> FromJson(js[i])]

\* The snapshot file: absent, a JSON array, or unparseable bytes.
NoFile == [kind |-> "none", items |-> <<>>]
Corrupt == [kind |-> "corrupt", items |-> <<>>]
JsonFile(js) == [kind |-> "json", items |-> js]

\* A retain that prunes nothing.
Retain_KeepAll(q) == q

\* self.queue.retain(|item| !item.synced)
RECURSIVE Retain(_)
Retain(q) ==
    IF q = <<>> THEN <<>>
    ELSE IF ~Head(q).synced THEN <<Head(q)>> \o Retain(Tail(q))
    ELSE Retain(Tail(q))

\* The filter closure |item| !item.synced.
IsPending(item) == ~item.synced

\* get_pending: the unsynced items in queue order.
get_pending(q) == SelectSeq(q, IsPending)

\* The loop over &self.queue in get_stats, from the map m on:
\* *by_action.entry(item.action.clone()).or_insert(0) += 1
RECURSIVE CountByAction(_, _)
CountByAction(q, m) ==
    IF q = <<>> THEN m
    ELSE LET a == Head(q).action
             e == IF a \in DOMAIN m
                  THEN m
                  ELSE [x \in DOMAIN m \cup {a} |-> IF x = a THEN 0 ELSE m[x]]
         IN  CountByAction(Tail(q), [e EXCEPT ![a] = @ + 1])

\* HashMap::new()
EmptyMap == [x \in {} |-> 0]

\* Statistics that count only the pending items per action.
get_stats_PendingByAction(q) ==
    LET total == Len(q)
        pending == Len(SelectSeq(q, IsPending))
    IN  [total |-> total,
         pending |-> pending,
         synced |-> total - pending,
         by_action |-> CountByAction(SelectSeq(q, IsPending), EmptyMap)]

\* get_stats: the QueueStats of queue q.
get_stats(q) ==
    LET total == Len(q)
        pending == Len(SelectSeq(q, IsPending))
    IN  [total |-> total,
         pending |-> pending,
         synced |-> total - pending,
         by_action |-> CountByAction(q, EmptyMap)]

\* An iterator without the filter: it yields every item.
NextPending_Unfiltered(q, idx) ==
    IF idx < Len(q) THEN idx + 1 ELSE 0

\* An iterator that yields the last pending item first.
NextPending_Last(q, idx) ==
    IF \E j \in (idx + 1)..Len(q) : ~q[j].synced
    THEN CHOOSE j \in (idx + 1)..Len(q) :
             /\ ~q[j].synced
             /\ \A k \in (j + 1)..Len(q) : q[k].synced
    ELSE 0

\* The next element the iterator queue.iter_mut().filter(|i| !i.synced)
\* yields after position idx (0 when it is exhausted).
NextPending(q, idx) ==
    IF \E j \in (idx + 1)..Len(q) : ~q[j].synced
    THEN CHOOSE j \in (idx + 1)..Len(q) :
             /\ ~q[j].synced
             /\ \A k \in (idx + 1)..(j - 1) : q[k].synced
    ELSE 0

\* A lookup that falls back to the head of the queue when the id is absent.
FindById_Fallback(q, id) ==
    IF \E j \in 1..Len(q) : q[j].id = id
    THEN CHOOSE j \in 1..Len(q) :
             /\ q[j].id = id
             /\ \A k \in 1..(j - 1) : q[k].id # id
    ELSE IF q # <<>> THEN 1 ELSE 0

\* queue.iter_mut().find(|i| i.id == item_id): the first position with that
\* id (0 for None).
FindById(q, id) ==
    IF \E j \in 1..Len(q) : q[j].id = id
    THEN CHOOSE j \in 1..Len(q) :
             /\ q[j].id = id
             /\ \A k \in 1..(j - 1) : q[k].id # id
    ELSE 0

\* persist_queue: the file after the call, for each outcome of the I/O.
PersistDisk(q, d, po) ==
    CASE po = "ok"   -> JsonFile(Serialize(q))
      [] po = "err"  -> d
      [] po = "open" -> d
      [] po = "torn" -> Corrupt

\* persist_queue's return value.
PersistErr(po) ==
    CASE po = "ok"   -> ""
      [] po = "err"  -> "Failed to create dir"
      [] po = "open" -> "Failed to write queue"
      [] po = "torn" -> "Failed to write queue"

----------------------------------------------------------------------------
(* Results reported to the caller *)

\* The timestamps of the items held in memory or in the snapshot.
Stored ==
    {queue[i].timestamp : i \in 1..Len(queue)}
        \cup {disk.items[i].timestamp : i \in 1..Len(disk.items)}

\* History: delivered is the set of stored items for which sync_item has
\* returned Ok(true).  An item that is neither in memory nor in the snapshot
\* cannot come back, so it is forgotten.
Track(acked) == delivered' = (delivered \cup acked) \cap Stored'

\* The environment may fail an I/O step while its budget lasts.
IO(o) ==
    /\ (o # "ok" => faults < MaxFaults)
    /\ faults' = IF o = "ok" THEN faults ELSE faults + 1

NoResult == [processed |-> 0, failed |-> 0, conflicts |-> <<>>]

\* ret is what the last call returned to its caller: the operation, its error
\* ("" for Ok), the strategy a resolve_conflict was given and the FlushResult.
\* A flush that has started and not returned yet shows as "flush_begin".
Ret(op, err, strategy, result) ==
    [op |-> op, ok |-> (err = ""), err |-> err,
     strategy |-> strategy, result |-> result]

\* The locals of one flush call; start and handed are history: the queue when
\* the call began and the timestamps passed to sync_item so far.
IdleFlush == [idx |-> 0, processed |-> 0, failed |-> 0, conflicts |-> <<>>,
              handed |-> <<>>, start |-> <<>>]

----------------------------------------------------------------------------
(* State machine *)

\* ElectricSync::new() behind a fresh Mutex; no snapshot file yet.
Init ==
    /\ queue = <<>>
    /\ disk = NoFile
    /\ lock = NoOne
    /\ pc = [p \in Procs |-> "idle"]
    /\ fl = [p \in Procs |-> IdleFlush]
    /\ ret = Ret("new", "", "", NoResult)
    /\ now = 1
    /\ delivered = {}
    /\ faults = 0

\* An enqueue that collapses the queued changes to the same path into the new
\* one.
Enqueue_Collapse(pl, synced, po) ==
    /\ lock = NoOne
    /\ now <= MaxEnq
    /\ queue' = Append(SelectSeq(queue, LAMBDA it : it.path # ThePath),
                  SyncQueueItem(pl.id, pl.action, ThePath, pl.content, now, synced))
    /\ disk' = PersistDisk(queue', disk, po)
    /\ ret' = Ret("enqueue", PersistErr(po), "", NoResult)
    /\ now' = now + 1
    /\ Track({})
    /\ UNCHANGED <<lock, pc, fl>>
    /\ IO(po)

\* An enqueue that reaches the queue without holding the guard.
Enqueue_Unguarded(pl, synced, po) ==
    /\ now <= MaxEnq
    /\ queue' = Append(queue,
                  SyncQueueItem(pl.id, pl.action, ThePath, pl.content, now, synced))
    /\ disk' = PersistDisk(queue', disk, po)
    /\ ret' = Ret("enqueue", PersistErr(po), "", NoResult)
    /\ now' = now + 1
    /\ Track({})
    /\ UNCHANGED <<lock, pc, fl>>
    /\ IO(po)

\* enqueue(item): push, then persist; the caller stamps the item with its
\* clock.
Enqueue(pl, synced, po) ==
    /\ lock = NoOne
    /\ now <= MaxEnq
    /\ queue' = Append(queue,
                  SyncQueueItem(pl.id, pl.action, ThePath, pl.content, now, synced))
    /\ disk' = PersistDisk(queue', disk, po)
    /\ ret' = Ret("enqueue", PersistErr(po), "", NoResult)
    /\ now' = now + 1
    /\ Track({})
    /\ UNCHANGED <<lock, pc, fl>>
    /\ IO(po)

\* A flush that starts without waiting for the guard.
FlushBegin_NoGuard(p) ==
    /\ pc[p] = "idle"
    /\ lock' = p
    /\ pc' = [pc EXCEPT ![p] = "flushing"]
    /\ fl' = [fl EXCEPT ![p] = [IdleFlush EXCEPT !.start = queue]]
    /\ ret' = Ret("flush_begin", "", "", NoResult)
    /\ UNCHANGED <<queue, disk, now, delivered, faults>>

\* Task p's sync_engine.lock().await is granted (it waits while another task
\* holds the guard) and flush(&mut self) starts with zeroed counters.
FlushBegin(p) ==
    /\ pc[p] = "idle"
    /\ lock = NoOne
    /\ lock' = p
    /\ pc' = [pc EXCEPT ![p] = "flushing"]
    /\ fl' = [fl EXCEPT ![p] = [IdleFlush EXCEPT !.start = queue]]
    /\ ret' = Ret("flush_begin", "", "", NoResult)
    /\ UNCHANGED <<queue, disk, now, delivered, faults>>

\* A loop that gives up at the first item the adapter did not accept.
FlushItem_StopOnFailure(p, outcome) ==
    /\ pc[p] = "flushing"
    /\ lock = p
    /\ LET i == NextPending(queue, fl[p].idx) IN
        /\ i # 0
        /\ queue' = IF outcome = "Synced"
                    THEN [queue EXCEPT ![i].synced = TRUE]
                    ELSE queue
        /\ fl' = [fl EXCEPT
                    ![p].idx = IF outcome = "Synced" THEN i ELSE Len(queue),
                    ![p].handed = Append(@, queue[i].timestamp),
                    ![p].processed = IF outcome = "Synced" THEN @ + 1 ELSE @,
                    ![p].conflicts = IF outcome = "Conflicted"
                                     THEN Append(@, queue[i].id) ELSE @,
                    ![p].failed = IF outcome = "Failed" THEN @ + 1 ELSE @]
        /\ disk' = disk
        /\ Track(IF outcome = "Synced" THEN {queue[i].timestamp} ELSE {})
    /\ UNCHANGED <<lock, pc, ret, now>>
    /\ UNCHANGED faults

\* A loop whose Ok(true) arm counts the item without marking it synced.
FlushItem_SyncedNotMarked(p, outcome) ==
    /\ pc[p] = "flushing"
    /\ lock = p
    /\ LET i == NextPending(queue, fl[p].idx) IN
        /\ i # 0
        /\ queue' = queue
        /\ fl' = [fl EXCEPT
                    ![p].idx = i,
                    ![p].handed = Append(@, queue[i].timestamp),
                    ![p].processed = IF outcome = "Synced" THEN @ + 1 ELSE @,
                    ![p].conflicts = IF outcome = "Conflicted"
                                     THEN Append(@, queue[i].id) ELSE @,
                    ![p].failed = IF outcome = "Failed" THEN @ + 1 ELSE @]
        /\ disk' = disk
        /\ Track(IF outcome = "Synced" THEN {queue[i].timestamp} ELSE {})
    /\ UNCHANGED <<lock, pc, ret, now>>
    /\ UNCHANGED faults

\* One iteration of the for loop: the next pending item goes to sync_item and
\* the match arm for its outcome runs.
FlushItem(p, outcome) ==
    /\ pc[p] = "flushing"
    /\ lock = p
    /\ LET i == NextPending(queue, fl[p].idx) IN
        /\ i # 0
        /\ queue' = IF outcome = "Synced"
                    THEN [queue EXCEPT ![i].synced = TRUE]
                    ELSE queue
        /\ fl' = [fl EXCEPT
                    ![p].idx = i,
                    ![p].handed = Append(@, queue[i].timestamp),
                    ![p].processed = IF outcome = "Synced" THEN @ + 1 ELSE @,
                    ![p].conflicts = IF outcome = "Conflicted"
                                     THEN Append(@, queue[i].id) ELSE @,
                    ![p].failed = IF outcome = "Failed" THEN @ + 1 ELSE @]
        /\ disk' = disk
        /\ Track(IF outcome = "Synced" THEN {queue[i].timestamp} ELSE {})
    /\ UNCHANGED <<lock, pc, ret, now>>
    /\ UNCHANGED faults

\* A flush that ends by dropping the whole queue.
FlushEnd_DropsAll(p, po) ==
    /\ pc[p] = "flushing"
    /\ lock = p
    /\ NextPending(queue, fl[p].idx) = 0
    /\ queue' = <<>>
    /\ disk' = PersistDisk(queue', disk, po)
    /\ ret' = Ret("flush", PersistErr(po), "",
                  IF po = "ok"
                  THEN [processed |-> fl[p].processed, failed |-> fl[p].failed,
                        conflicts |-> fl[p].conflicts]
                  ELSE NoResult)
    /\ lock' = NoOne
    /\ pc' = [pc EXCEPT ![p] = "idle"]
    /\ fl' = [fl EXCEPT ![p] = IdleFlush]
    /\ Track({})
    /\ UNCHANGED now
    /\ IO(po)

\* The loop is over: prune synced items, persist, return the FlushResult (or
\* the persist error) and drop the mutex guard.
FlushEnd(p, po) ==
    /\ pc[p] = "flushing"
    /\ lock = p
    /\ NextPending(queue, fl[p].idx) = 0
    /\ queue' = Retain(queue)
    /\ disk' = PersistDisk(queue', disk, po)
    /\ ret' = Ret("flush", PersistErr(po), "",
                  IF po = "ok"
                  THEN [processed |-> fl[p].processed, failed |-> fl[p].failed,
                        conflicts |-> fl[p].conflicts]
                  ELSE NoResult)
    /\ lock' = NoOne
    /\ pc' = [pc EXCEPT ![p] = "idle"]
    /\ fl' = [fl EXCEPT ![p] = IdleFlush]
    /\ Track({})
    /\ UNCHANGED now
    /\ IO(po)

\* The flush future is dropped at its await point, while sync_item is awaited
\* for the next pending item: the guard is released and nothing is pruned or
\* persisted.
FlushCancel(p) ==
    /\ pc[p] = "flushing"
    /\ lock = p
    /\ NextPending(queue, fl[p].idx) # 0
    /\ lock' = NoOne
    /\ pc' = [pc EXCEPT ![p] = "idle"]
    /\ fl' = [fl EXCEPT ![p] = IdleFlush]
    /\ ret' = Ret("flush_cancelled", "", "", NoResult)
    /\ UNCHANGED <<queue, disk, now, delivered>>
    /\ UNCHANGED faults

\* A merge arm that forgets to mark the item pending.
ApplyStrategy_MergeKeepsSynced(item, strategy, rc) ==
    CASE strategy = "last-write-wins" ->
            [item |-> [item EXCEPT !.synced = FALSE], err |-> ""]
      [] strategy = "merge" ->
            [item |-> IF rc # <<>>
                      THEN [item EXCEPT !.content = rc]
                      ELSE item,
             err |-> ""]
      [] OTHER ->
            [item |-> item, err |-> "Unknown conflict strategy"]

\* A default arm that retries instead of rejecting the strategy.
ApplyStrategy_UnknownRetries(item, strategy, rc) ==
    CASE strategy = "merge" ->
            [item |-> IF rc # <<>>
                      THEN [item EXCEPT !.content = rc, !.synced = FALSE]
                      ELSE item,
             err |-> ""]
      [] OTHER ->
            [item |-> [item EXCEPT !.synced = FALSE], err |-> ""]

\* A last-write-wins arm that leaves the item as it found it.
ApplyStrategy_LwwKeepsSynced(item, strategy, rc) ==
    CASE strategy = "last-write-wins" ->
            [item |-> item, err |-> ""]
      [] strategy = "merge" ->
            [item |-> IF rc # <<>>
                      THEN [item EXCEPT !.content = rc, !.synced = FALSE]
                      ELSE item,
             err |-> ""]
      [] OTHER ->
            [item |-> item, err |-> "Unknown conflict strategy"]

\* The match on resolution.strategy applied to the found item: the item after
\* the arm, and the error the arm returns ("" when it falls through to
\* persist_queue).
ApplyStrategy(item, strategy, rc) ==
    CASE strategy = "last-write-wins" ->
            [item |-> [item EXCEPT !.synced = FALSE], err |-> ""]
      [] strategy = "merge" ->
            [item |-> IF rc # <<>>
                      THEN [item EXCEPT !.content = rc, !.synced = FALSE]
                      ELSE item,
             err |-> ""]
      [] OTHER ->
            [item |-> item, err |-> "Unknown conflict strategy"]

\* resolve_conflict(item_id, resolution); po is the outcome of the persist
\* step on the path that reaches it.
ResolveConflict(id, strategy, rc) ==
    /\ lock = NoOne
    /\ LET i == FindById(queue, id) IN
        IF i = 0
        THEN /\ ret' = Ret("resolve_conflict", "Item not found",
                           strategy, NoResult)
             /\ UNCHANGED <<queue, disk, faults>>
        ELSE LET r == ApplyStrategy(queue[i], strategy, rc) IN
             IF r.err # ""
             THEN /\ ret' = Ret("resolve_conflict", r.err,
                                strategy, NoResult)
                  /\ UNCHANGED <<queue, disk, faults>>
             ELSE \E po \in PersistOutcomes :
                  /\ queue' = [queue EXCEPT ![i] = r.item]
                  /\ disk' = PersistDisk(queue', disk, po)
                  /\ ret' = Ret("resolve_conflict", PersistErr(po),
                                strategy, NoResult)
                  /\ IO(po)
    /\ Track({})
    /\ UNCHANGED <<lock, pc, fl, now>>

\* load_queue(): when Path::exists() is false (no file, or a file whose
\* metadata cannot be read) the queue becomes empty and the call returns Ok;
\* otherwise the file is read and parsed, and the queue assigned last.
LoadQueue(ro) ==
    /\ lock = NoOne
    /\ IF disk.kind = "none"
       THEN /\ queue' = <<>>
            /\ ret' = Ret("load_queue", "", "", NoResult)
            /\ UNCHANGED faults
       ELSE /\ IO(ro)
            /\ IF ro = "hidden"
               THEN /\ queue' = <<>>
                    /\ ret' = Ret("load_queue", "", "", NoResult)
               ELSE IF ro = "err"
               THEN /\ queue' = queue
                    /\ ret' = Ret("load_queue", "Failed to read queue",
                                  "", NoResult)
               ELSE IF disk.kind = "corrupt"
               THEN /\ queue' = queue
                    /\ ret' = Ret("load_queue", "Failed to parse queue",
                                  "", NoResult)
               ELSE /\ queue' = Deserialize(disk.items)
                    /\ ret' = Ret("load_queue", "", "", NoResult)
    /\ disk' = disk
    /\ Track({})
    /\ UNCHANGED <<lock, pc, fl, now>>

\* clear(): empties the queue and discards persist_queue's result.
Clear(po) ==
    /\ lock = NoOne
    /\ queue' = <<>>
    /\ disk' = PersistDisk(queue', disk, po)
    /\ ret' = Ret("clear", "", "", NoResult)
    /\ Track({})
    /\ UNCHANGED <<lock, pc, fl, now>>
    /\ IO(po)

\* get_stats(&self): reads the queue and returns the QueueStats.
GetStats ==
    /\ lock = NoOne
    /\ ret' = Ret("get_stats", "", "", get_stats(queue))
    /\ UNCHANGED <<queue, disk, lock, pc, fl, now, delivered, faults>>

\* The process exits and starts again: main's setup builds a fresh
\* ElectricSync::new() behind a fresh Mutex; the snapshot file stays.
Restart ==
    /\ queue' = <<>>
    /\ lock' = NoOne
    /\ pc' = [p \in Procs |-> "idle"]
    /\ fl' = [p \in Procs |-> IdleFlush]
    /\ ret' = Ret("restart", "", "", NoResult)
    /\ disk' = disk
    /\ Track({})
    /\ UNCHANGED now
    /\ UNCHANGED faults

Next ==
    \/ \E pl \in Payloads, s \in BOOLEAN, po \in PersistOutcomes :
          Enqueue(pl, s, po)
    \/ \E p \in Procs : FlushBegin(p)
    \/ \E p \in Procs, o \in SyncOutcomes : FlushItem(p, o)
    \/ \E p \in Procs, po \in PersistOutcomes : FlushEnd(p, po)
    \/ \E p \in Procs : FlushCancel(p)
    \/ \E id \in Ids, st \in Strategies, rc \in ResolvedContents :
          ResolveConflict(id, st, rc)
    \/ \E ro \in ReadOutcomes : LoadQueue(ro)
    \/ \E po \in PersistOutcomes : Clear(po)
    \/ GetStats
    \/ Restart

Spec == Init /\ [][Next]_vars

\* The engine's operations alone: no process restart and no dropped flush.
NextOps ==
    \/ \E pl \in Payloads, s \in BOOLEAN, po \in PersistOutcomes :
          Enqueue(pl, s, po)
    \/ \E p \in Procs : FlushBegin(p)
    \/ \E p \in Procs, o \in SyncOutcomes : FlushItem(p, o)
    \/ \E p \in Procs, po \in PersistOutcomes : FlushEnd(p, po)
    \/ \E id \in Ids, st \in Strategies, rc \in ResolvedContents :
          ResolveConflict(id, st, rc)
    \/ \E ro \in ReadOutcomes : LoadQueue(ro)
    \/ \E po \in PersistOutcomes : Clear(po)
    \/ GetStats

SpecOps == Init /\ [][NextOps]_vars

\* The loop iteration in which sync_item returns Ok(true) for the item
\* stamped t.
FlushSynced(p, t) ==
    /\ pc[p] = "flushing"
    /\ lock = p
    /\ NextPending(queue, fl[p].idx) # 0
    /\ queue[NextPending(queue, fl[p].idx)].timestamp = t
    /\ FlushItem(p, "Synced")

\* A step of a flush call: it starts, handles one item, or ends.
FlushStep ==
    \E p \in Procs :
        \/ FlushBegin(p)
        \/ \E o \in SyncOutcomes : FlushItem(p, o)
        \/ \E po \in PersistOutcomes : FlushEnd(p, po)

\* The engine's operations with a flush that is called again and again, runs
\* to its end once it holds the guard (tokio's Mutex is fair and the loop
\* awaits nothing but sync_item), and an adapter that does not refuse any
\* item for ever.
Fairness ==
    /\ WF_vars(FlushStep)
    /\ \A t \in 1..MaxLiveEnq : SF_vars(\E p \in Procs : FlushSynced(p, t))

\* The operations that add work or bring it back: enqueue, the flush,
\* resolve_conflict and load_queue.
NextLive ==
    \/ \E pl \in Payloads, s \in BOOLEAN, po \in PersistOutcomes :
          now <= MaxLiveEnq /\ Enqueue(pl, s, po)
    \/ \E p \in Procs : FlushBegin(p)
    \/ \E p \in Procs, o \in SyncOutcomes : FlushItem(p, o)
    \/ \E p \in Procs, po \in PersistOutcomes : FlushEnd(p, po)
    \/ \E id \in Ids, st \in Strategies, rc \in ResolvedContents :
          ResolveConflict(id, st, rc)
    \/ \E ro \in ReadOutcomes : LoadQueue(ro)

SpecLive == Init /\ [][NextLive]_vars /\ Fairness

----------------------------------------------------------------------------
(* Properties *)

\* The timestamps of the pending items of q, in queue order.
PendingTs(q) ==
    [i \in 1..Len(get_pending(q)) |-> get_pending(q)[i].timestamp]

\* The last call on the engine was op and it has returned.
Returned(op) == ret.op = op

\* This step is a resolve_conflict call with strategy st.
ResolveStep(st) == ret'.op = "resolve_conflict" /\ ret'.strategy = st

\* The snapshot is readable and load_queue would read the in-memory queue
\* from it (an absent file reads as the empty queue).
InSync ==
    /\ disk.kind # "corrupt"
    /\ queue = (IF disk.kind = "none" THEN <<>> ELSE Deserialize(disk.items))

\* A step of resolve_conflict.
IsResolve ==
    \E id \in Ids, st \in Strategies, rc \in ResolvedContents :
        ResolveConflict(id, st, rc)

\* C1: when flush has returned its FlushResult, neither the snapshot it wrote
\* nor the in-memory queue holds an item with synced = TRUE.
C1_FlushPrunesSynced ==
    (Returned("flush") /\ ret.ok) =>
        /\ disk.kind = "json"
        /\ \A i \in 1..Len(disk.items) : ~disk.items[i].synced
        /\ \A i \in 1..Len(queue) : ~queue[i].synced
        /\ InSync

\* A flush that synced and pruned an item and left another one pending.
C1_Witness ==
    /\ Returned("flush") /\ ret.ok
    /\ ret.result.processed >= 1
    /\ Len(queue) >= 1

\* C2: within one flush the pending items go to the adapter in enqueue order
\* (increasing timestamp), each exactly once: what has been handed over so far
\* is the pending part of the starting queue up to the iterator's position,
\* and all of it once the iterator is exhausted.
C2_FlushInEnqueueOrder ==
    \A p \in Procs : pc[p] = "flushing" =>
        /\ fl[p].handed = PendingTs(SubSeq(fl[p].start, 1, fl[p].idx))
        /\ (NextPending(queue, fl[p].idx) = 0 =>
               fl[p].handed = PendingTs(fl[p].start))
        /\ \A i, j \in 1..Len(fl[p].handed) :
               i < j => fl[p].handed[i] < fl[p].handed[j]

\* A flush that has handed two items (same path) to the adapter and is done.
C2_Witness ==
    \E p \in Procs :
        /\ pc[p] = "flushing"
        /\ Len(fl[p].handed) = 2
        /\ fl[p].start[1].path = fl[p].start[2].path
        /\ NextPending(queue, fl[p].idx) = 0

\* C3 (as claimed): an item for which the adapter has returned Synced is never
\* handed to the adapter again.
C3_AtMostOnce ==
    [][\A p \in Procs :
          Len(fl'[p].handed) = Len(fl[p].handed) + 1 =>
              fl'[p].handed[Len(fl'[p].handed)] \notin delivered]_vars

\* C4 (as claimed): after a restart every unsynced item of the snapshot is
\* pending in the engine.
C4_QueueSurvivesRestart ==
    (Returned("restart") /\ disk.kind = "json") =>
        get_pending(queue) = get_pending(Deserialize(disk.items))

\* C5 (as claimed): a mutating operation that returned without an error left
\* the snapshot equal to the in-memory queue.
C5_NoSilentDivergence ==
    (/\ ret.op \in {"enqueue", "flush", "resolve_conflict", "clear"}
     /\ ret.ok) => InSync

\* C6: two flushes never overlap: while one task is inside flush it holds the
\* guard, no other task is inside flush, and no other task has handed an item
\* to the adapter.
C6_FlushesSerialized ==
    \A p, q \in Procs :
        (p # q /\ pc[p] = "flushing") =>
            /\ lock = p
            /\ pc[q] # "flushing"
            /\ fl[q].handed = <<>>

\* A flush is under way, has handed an item over, and the other task's flush
\* cannot start.
C6_Witness ==
    \E p, q \in Procs :
        /\ p # q
        /\ pc[p] = "flushing"
        /\ fl[p].handed # <<>>
        /\ NextPending(queue, fl[p].idx) # 0
        /\ pc[q] = "idle"
        /\ ~ENABLED FlushBegin(q)

\* C7 (as claimed): resolve_conflict with strategy "merge" and no
\* resolved_content reports an error and changes neither the queue nor the
\* snapshot.
C7_MergeWithoutContentFails ==
    [][\A id \in Ids :
          (ResolveStep("merge") /\ ResolveConflict(id, "merge", <<>>)) =>
              /\ ~ret'.ok
              /\ queue' = queue
              /\ disk' = disk]_vars

\* C8 (as claimed): a resolve_conflict that reports an error leaves the
\* in-memory queue as it was, and one that changes the queue reports success
\* and has persisted it.
C8_ResolveAllOrNothing ==
    [][(ret'.op = "resolve_conflict" /\ IsResolve) =>
          /\ (~ret'.ok => queue' = queue)
          /\ (queue' # queue => ret'.ok /\ InSync')]_vars

\* The effect of a merge with content rc on the first item with the id.
MergeEffect(id, rc) ==
    LET i == FindById(queue, id) IN
        /\ Len(queue') = Len(queue)
        /\ queue'[i] = [queue[i] EXCEPT !.content = rc, !.synced = FALSE]
        /\ \A j \in 1..Len(queue) : j # i => queue'[j] = queue[j]

\* C9 (as claimed): a merge with content on a present id succeeds, updates the
\* item only, and persists the queue.
C9_MergeSucceeds ==
    [][\A id \in Ids, rc \in ResolvedContents \ {<<>>} :
          (/\ ResolveStep("merge")
           /\ FindById(queue, id) # 0
           /\ ResolveConflict(id, "merge", rc)) =>
              /\ ret'.ok
              /\ MergeEffect(id, rc)
              /\ InSync']_vars

\* C9 (amended): a merge with content on a present id sets the content and
\* clears synced on the first item with that id and changes nothing else in
\* the queue; the only error it reports is the persist step's, and when it
\* reports success the snapshot holds the updated queue.
C9_MergeEffect ==
    [][\A id \in Ids, rc \in ResolvedContents \ {<<>>} :
          (/\ ResolveStep("merge")
           /\ FindById(queue, id) # 0
           /\ ResolveConflict(id, "merge", rc)) =>
              /\ MergeEffect(id, rc)
              /\ ret'.err \in {PersistErr(po) : po \in PersistOutcomes}
              /\ ret'.ok => InSync']_vars

\* A successful merge on a queue of two items, the merged one not the last.
C9_Witness ==
    /\ Returned("resolve_conflict") /\ ret.ok
    /\ ret.strategy = "merge"
    /\ Len(queue) = 2
    /\ queue[1].content = <<"new">> /\ ~queue[1].synced
    /\ queue[2].content # <<"new">>

\* C10: an unrecognised strategy on an id that is in the queue fails with the
\* unknown-strategy error and changes neither the queue nor the snapshot.
C10_UnknownStrategyRejected ==
    [][\A id \in Ids, st \in Strategies \ {"last-write-wins", "merge"},
          rc \in ResolvedContents :
          (/\ ResolveStep(st)
           /\ FindById(queue, id) # 0
           /\ ResolveConflict(id, st, rc)) =>
              /\ ~ret'.ok
              /\ ret'.err = "Unknown conflict strategy"
              /\ queue' = queue
              /\ disk' = disk]_vars

\* resolve_conflict has just rejected "bogus" for an item that is queued.
C10_Witness ==
    /\ Returned("resolve_conflict")
    /\ ret.strategy = "bogus"
    /\ ret.err = "Unknown conflict strategy"
    /\ queue # <<>>

\* C11: resolve_conflict on an id that no queued item carries fails with the
\* item-not-found error whatever the strategy and the resolved content, and
\* changes neither the queue nor the snapshot.
C11_MissingIdRejected ==
    [][\A id \in Ids, st \in Strategies, rc \in ResolvedContents :
          (/\ ResolveStep(st)
           /\ \A j \in 1..Len(queue) : queue[j].id # id
           /\ ResolveConflict(id, st, rc)) =>
              /\ ~ret'.ok
              /\ ret'.err = "Item not found"
              /\ queue' = queue
              /\ disk' = disk]_vars

\* resolve_conflict has just failed to find its id in a queue that holds
\* another item, with a strategy that would otherwise have been applied.
C11_Witness ==
    /\ Returned("resolve_conflict")
    /\ ret.err = "Item not found"
    /\ ret.strategy = "merge"
    /\ queue # <<>>

\* The effect of last-write-wins on the first item with the id: synced is
\* cleared, every other field and every other item stays.
RetryEffect(id) ==
    LET i == FindById(queue, id) IN
        /\ Len(queue') = Len(queue)
        /\ queue'[i] = [queue[i] EXCEPT !.synced = FALSE]
        /\ queue'[i].content = queue[i].content
        /\ \A j \in 1..Len(queue) : j # i => queue'[j] = queue[j]
        /\ queue[i].timestamp \in
               {PendingTs(queue')[k] : k \in 1..Len(PendingTs(queue'))}

\* C12 (as claimed): last-write-wins on a present id succeeds, leaves the item
\* pending with its content unchanged, so that it is among the pending items
\* of the next flush.
C12_RetrySucceeds ==
    [][\A id \in Ids, rc \in ResolvedContents :
          (/\ ResolveStep("last-write-wins")
           /\ FindById(queue, id) # 0
           /\ ResolveConflict(id, "last-write-wins", rc)) =>
              /\ ret'.ok
              /\ RetryEffect(id)]_vars

\* C12 (amended): last-write-wins on a present id clears synced on the first
\* item with that id, keeps its content and every other item, so that the
\* item is among the pending items a flush starting now would hand over; the
\* only error the call reports is the persist step's, and when it reports
\* success the snapshot holds the updated queue.
C12_RetryEffect ==
    [][\A id \in Ids, rc \in ResolvedContents :
          (/\ ResolveStep("last-write-wins")
           /\ FindById(queue, id) # 0
           /\ ResolveConflict(id, "last-write-wins", rc)) =>
              /\ RetryEffect(id)
              /\ ret'.err \in {PersistErr(po) : po \in PersistOutcomes}
              /\ ret'.ok => InSync']_vars

\* A successful last-write-wins; the item it made pending had been delivered
\* before, so it was marked synced when the call came.
C12_Witness ==
    /\ Returned("resolve_conflict") /\ ret.ok
    /\ ret.strategy = "last-write-wins"
    /\ \E i \in 1..Len(queue) :
          /\ ~queue[i].synced
          /\ queue[i].timestamp \in delivered
          /\ queue[i].content # <<>>

\* The queue positions of the items the flush of p has handed to the adapter
\* and that are still pending.
HandedUnsynced(p) ==
    {i \in 1..Len(queue) :
        /\ ~queue[i].synced
        /\ \E k \in 1..Len(fl[p].handed) : fl[p].handed[k] = queue[i].timestamp}

\* C13: during a flush, every item the adapter reported Conflicted or Failed
\* stays in the queue with synced = FALSE, a Conflicted one with its id in the
\* conflict list and a Failed one counted in failed; neither outcome ends the
\* loop: when the loop is over, every item that was pending when the flush
\* began has been handed to the adapter.
C13_ConflictAndFailureKeepPending ==
    \A p \in Procs : pc[p] = "flushing" =>
        /\ Len(fl[p].handed)
              = fl[p].processed + fl[p].failed + Len(fl[p].conflicts)
        /\ Cardinality(HandedUnsynced(p))
              = fl[p].failed + Len(fl[p].conflicts)
        /\ \A k \in 1..Len(fl[p].conflicts) :
              \E i \in HandedUnsynced(p) : queue[i].id = fl[p].conflicts[k]
        /\ Len(queue) = Len(fl[p].start)
        /\ NextPending(queue, fl[p].idx) = 0 =>
              fl[p].handed = PendingTs(fl[p].start)

\* A flush in which the first item conflicted and the second failed: both are
\* still pending and both were handed over.
C13_Witness ==
    \E p \in Procs :
        /\ pc[p] = "flushing"
        /\ Len(fl[p].handed) = 2
        /\ fl[p].conflicts = <<queue[1].id>>
        /\ fl[p].failed = 1
        /\ ~queue[1].synced /\ ~queue[2].synced

\* C14 (as claimed): a flush of a queue without pending items returns zero
\* counts and no conflicts, calls the adapter for nothing and leaves the
\* snapshot as it was.
C14_IdleFlushIsNoop ==
    [][ret'.op = "flush" =>
          \A p \in Procs :
              (pc[p] = "flushing" /\ get_pending(fl[p].start) = <<>>) =>
                  /\ ret'.ok
                  /\ ret'.result = NoResult
                  /\ fl[p].handed = <<>>
                  /\ disk' = disk]_vars

\* C14 (amended): a flush of a queue without pending items calls the adapter
\* for nothing and empties the queue (it prunes the synced items); it then
\* rewrites the snapshot: when the write succeeds it returns zero counts and
\* no conflicts and the snapshot is the empty list, otherwise it returns the
\* persist step's error.
C14_IdleFlushPrunes ==
    [][ret'.op = "flush" =>
          \A p \in Procs :
              (pc[p] = "flushing" /\ get_pending(fl[p].start) = <<>>) =>
                  /\ fl[p].handed = <<>>
                  /\ queue' = <<>>
                  /\ ret'.result = NoResult
                  /\ ret'.err \in {PersistErr(po) : po \in PersistOutcomes}
                  /\ ret'.ok => disk' = JsonFile(<<>>)]_vars

\* A flush over a queue that holds an item, none of them pending, is about to
\* prune and persist; the snapshot holds the item.
C14_Witness ==
    \E p \in Procs :
        /\ pc[p] = "flushing"
        /\ fl[p].start # <<>>
        /\ get_pending(fl[p].start) = <<>>
        /\ disk = JsonFile(Serialize(queue))

\* The timestamps of the items of the snapshot.
SnapshotTs(d) == {FromJson(d.items[k]).timestamp : k \in 1..Len(d.items)}

\* C15 (as claimed): a flush dropped between two items leaves the queue as
\* the loop left it (items marked synced stay synced, items not reached stay
\* pending), and the snapshot written by the next operation that persists
\* holds none of the items the dropped flush had marked synced.
C15_CancelledFlushPrunedOnPersist ==
    [][/\ ret'.op = "flush_cancelled" => queue' = queue
       /\ (/\ ret.op = "flush_cancelled"
           /\ ret'.op \in {"enqueue", "resolve_conflict", "clear"}
           /\ disk' = JsonFile(Serialize(queue'))) =>
              \A i \in 1..Len(queue) :
                  (queue[i].synced /\ queue[i].timestamp \in delivered) =>
                      queue[i].timestamp \notin SnapshotTs(disk')]_vars

\* C16: enqueue puts the item at the end of the queue and persists the
\* queue: the items already queued keep their place and their fields (none is
\* removed or collapsed, whatever its path), the new item is last, an unsynced
\* new item is the last of get_pending, and the call reports the persist
\* step's result: when it returns Ok the snapshot holds the queue with the new
\* item last.
C16_EnqueueAppends ==
    [][ret'.op = "enqueue" =>
          /\ Len(queue') = Len(queue) + 1
          /\ SubSeq(queue', 1, Len(queue)) = queue
          /\ queue'[Len(queue')].timestamp = now
          /\ ~queue'[Len(queue')].synced =>
                get_pending(queue') =
                    Append(get_pending(queue), queue'[Len(queue')])
          /\ queue'[Len(queue')].synced =>
                get_pending(queue') = get_pending(queue)
          /\ ret'.err \in {PersistErr(po) : po \in PersistOutcomes}
          /\ ret'.ok => /\ disk' = JsonFile(Serialize(queue'))
                        /\ Deserialize(disk'.items) = queue']_vars

\* An enqueue has returned Ok on a queue that already held an item for the
\* same path: both are queued, the new one last and pending.
C16_Witness ==
    /\ Returned("enqueue") /\ ret.ok
    /\ Len(queue) = 2
    /\ queue[1].path = queue[2].path
    /\ queue[2].timestamp = now - 1
    /\ ~queue[2].synced
    /\ get_pending(queue)[Len(get_pending(queue))] = queue[2]

\* C17 (as claimed): no two items of the queue carry the same id, so the
\* first item with an id is the only one.
C17_IdsUnique ==
    \A i, j \in 1..Len(queue) : i # j => queue[i].id # queue[j].id

\* The sum of the values of a map with finite domain.
RECURSIVE SumMap(_)
SumMap(m) ==
    IF DOMAIN m = {} THEN 0
    ELSE LET a == CHOOSE x \in DOMAIN m : TRUE
         IN  m[a] + SumMap([x \in DOMAIN m \ {a} |-> m[x]])

\* C18: get_stats returns total = the number of queued items, pending = the
\* number of them with synced = FALSE, synced = total - pending, and by_action
\* with one entry per action kind in the queue, holding the number of items
\* with that action (the entries sum to total); the call changes neither the
\* queue nor the snapshot.
C18_StatsCorrect ==
    [][ret'.op = "get_stats" =>
          LET s == ret'.result IN
          /\ s.total = Len(queue)
          /\ s.pending = Cardinality({i \in 1..Len(queue) : ~queue[i].synced})
          /\ s.synced = Cardinality({i \in 1..Len(queue) : queue[i].synced})
          /\ s.synced = s.total - s.pending
          /\ DOMAIN s.by_action = {queue[i].action : i \in 1..Len(queue)}
          /\ \A a \in DOMAIN s.by_action :
                s.by_action[a] =
                    Cardinality({i \in 1..Len(queue) : queue[i].action = a})
          /\ SumMap(s.by_action) = s.total
          /\ queue' = queue
          /\ disk' = disk]_vars

\* get_stats has returned on a queue of two items with different actions,
\* one of them synced.
C18_Witness ==
    /\ Returned("get_stats")
    /\ ret.result.total = 2
    /\ ret.result.pending = 1
    /\ ret.result.synced = 1
    /\ DOMAIN ret.result.by_action = {"create", "update"}

\* C19 (as claimed): persist followed by load is the identity on the queue.
\* When an enqueue has returned Ok (it has saved the queue, whose items may be
\* synced or without content) and the next call is a load_queue that returns
\* Ok, the queue after the load is the queue that was saved: the same items
\* in the same order with every field equal.
C19_PersistLoadRoundTrip ==
    [][(/\ ret.op = "enqueue" /\ ret.ok
        /\ ret'.op = "load_queue" /\ ret'.ok) =>
            queue' = queue]_vars

\* C20 (as claimed): load_queue without a snapshot file succeeds and leaves
\* the queue empty; when the snapshot is there and cannot be read (its
\* metadata or its bytes) or cannot be parsed, the call fails with an error
\* and the queue is as it was before the call.
C20_LoadFailureKeepsQueue ==
    [][ret'.op = "load_queue" =>
          /\ disk.kind = "none" => (ret'.ok /\ queue' = <<>>)
          /\ \A ro \in ReadOutcomes :
                (/\ disk.kind # "none"
                 /\ ro # "ok" \/ disk.kind = "corrupt"
                 /\ LoadQueue(ro)) =>
                    /\ ~ret'.ok
                    /\ queue' = queue]_vars

\* The timestamps of the queued items.
QueueTs == {queue[i].timestamp : i \in 1..Len(queue)}

\* The timestamps a flush in progress has handed to the adapter.
HandedTs ==
    UNION {{fl[p].handed[k] : k \in 1..Len(fl[p].handed)} : p \in Procs}

\* The timestamps of the pending items of the queue.
PendingTs_Set ==
    {queue[i].timestamp : i \in {j \in 1..Len(queue) : ~queue[j].synced}}

\* C21: no dead-letter state.  With flush called again and again and an
\* adapter that eventually accepts each item, an item that is pending outside
\* a flush (a Failed or Conflicted item after its flush has returned is one)
\* is handed to the adapter again unless it leaves the queue first, and every
\* queued item is eventually removed from the queue.
C21_NoDeadLetter ==
    \A t \in 1..MaxLiveEnq :
        /\ (t \in PendingTs_Set /\ lock = NoOne) ~>
               (t \in HandedTs \/ t \notin PendingTs_Set)
        /\ (t \in QueueTs) ~> (t \notin QueueTs)

\* A flush has returned with an item Failed, and the item is still pending in
\* the queue.
C21_Witness ==
    /\ Returned("flush") /\ ret.ok
    /\ ret.result.failed = 1
    /\ ret.result.processed = 0
    /\ Len(get_pending(queue)) = 1

\* Some call of enqueue, resolve_conflict or clear can run now.
MutatorEnabled ==
    \/ ENABLED (\E pl \in Payloads, s \in BOOLEAN, po \in PersistOutcomes :
                   Enqueue(pl, s, po))
    \/ ENABLED (\E id \in Ids, st \in Strategies, rc \in ResolvedContents :
                   ResolveConflict(id, st, rc))
    \/ ENABLED (\E po \in PersistOutcomes : Clear(po))

\* C22: the mutating operations exclude each other.  While a flush is in
\* progress it holds the guard, no enqueue, resolve_conflict or clear can run
\* (they run before it starts or after it has returned), and the queue is the
\* one the flush started with, changed only by the synced marks the flush has
\* set itself on items it has handed over; an enqueue that has returned has
\* left its item in the queue (last, until another call changes the queue),
\* whether it had to wait for a flush or not.
C22_MutatorsExcluded ==
    /\ \A p \in Procs : pc[p] = "flushing" =>
          /\ lock = p
          /\ ~MutatorEnabled
          /\ Len(queue) = Len(fl[p].start)
          /\ \A i \in 1..Len(queue) :
                \/ queue[i] = fl[p].start[i]
                \/ /\ queue[i] = [fl[p].start[i] EXCEPT !.synced = TRUE]
                   /\ \E k \in 1..Len(fl[p].handed) :
                         fl[p].handed[k] = queue[i].timestamp
    /\ (\A p \in Procs : pc[p] = "idle") => lock = NoOne
    /\ Returned("enqueue") =>
          /\ queue # <<>>
          /\ queue[Len(queue)].timestamp = now - 1

\* A flush has handed over and marked an item and has not pruned it yet,
\* while a caller has an item left to enqueue and an id to resolve.
C22_Witness ==
    \E p \in Procs :
        /\ pc[p] = "flushing"
        /\ now <= MaxEnq
        /\ Len(fl[p].handed) = 1
        /\ queue[fl[p].idx].synced
        /\ ~fl[p].start[fl[p].idx].synced

\* The timestamps of the items the flush of p found pending and has marked
\* synced (outcome Synced).
MarkedTs(p) ==
    {queue[i].timestamp :
        i \in {j \in 1..Len(queue) : queue[j].synced /\ ~fl[p].start[j].synced}}

\* C23: flush accounting.  When a flush returns its FlushResult, processed +
\* failed + the number of conflicts is the number of items that were pending
\* when it started, processed is the number of items that got outcome Synced,
\* and the queue it leaves is the queue it started with without those items
\* and without the items that were already marked synced, the others in the
\* same order with every field as before.
C23_FlushAccounting ==
    [][(ret'.op = "flush" /\ ret'.ok) =>
          \A p \in Procs : pc[p] = "flushing" =>
              /\ ret'.result.processed + ret'.result.failed
                    + Len(ret'.result.conflicts)
                    = Len(get_pending(fl[p].start))
              /\ ret'.result.processed = Cardinality(MarkedTs(p))
              /\ queue' = SelectSeq(fl[p].start,
                              LAMBDA it : /\ ~it.synced
                                          /\ it.timestamp \notin MarkedTs(p))
              /\ Len(queue') = ret'.result.failed
                                  + Len(ret'.result.conflicts)]_vars

\* A flush of two pending items has returned: one was Synced and is gone, the
\* other Failed and is what the queue holds.
C23_Witness ==
    /\ Returned("flush") /\ ret.ok
    /\ ret.result.processed = 1
    /\ ret.result.failed = 1
    /\ ret.result.conflicts = <<>>
    /\ Len(queue) = 1
    /\ ~queue[1].synced

====
